---- MODULE Spec2Model ----
(***************************************************************************)
(* Model of soprasteria/dockerapi: the Container handle's lifecycle        *)
(* operations (containers.go), the image helpers (images.go), the          *)
(* concurrent pool operations RunAll/RemoveAll and the exec protocol.      *)
(*                                                                         *)
(* The docker engine behind *docker.Client is the environment: every call  *)
(* to it may fail (its "ok" input is chosen freely), and it succeeds only  *)
(* when the engine's own state allows it (the container exists).           *)
(***************************************************************************)
EXTENDS Integers, Sequences, FiniteSets, TLC

\* ---------------------------------------------------------------- bounds

\* The engine of the handle specification assigns the ids 1..MaxIds; a create
\* beyond the engine's capacity fails.
MaxIds == 1

\* The most port bindings in the options given to NewContainer.
MaxBindings == 2

\* The longest pool given to RunAll/RemoveAll.
MaxPool == 2

\* The longest string given to SubString.
MaxLen == 3

\* The most bytes an exec session writes to its output stream.
MaxBytes == 4

\* The size the scanner's buffer may grow to: bufio.MaxScanTokenSize, 64 KiB
\* for the scanner bufio.NewScanner makes, scaled down to a few bytes.
MaxScanTokenSize == 3

\* ------------------------------------------------------------- constants

\* The empty container id, "" in the source (ID() of a handle never created).
EmptyID == 0

\* Grace period Stop passes to the engine, in seconds.
StopTimeout == 30

Handles == {"h1"}
PoolHandles == {"h1", "h2"}
Images == {"redis"}
\* The name each handle is constructed with.
HandleName(h) == IF h = "h1" THEN <<"a">> ELSE <<"b">>
\* Arguments given to Rename: empty, a bare "/", a plain and a slashed name.
NewNames == {<<>>, <<"/">>, <<"c">>, <<"/", "c">>}
\* Commands given to exec, bytes a session writes, exit codes it ends with.
Cmds == {<<"ls">>, <<"sh", "-c">>}
Bytes == {"x", "\n", "\r"}
Outputs == UNION {[1..n -> Bytes] : n \in 0..MaxBytes}
ExitCodes == {0, 1, 2}

VARIABLES
  handles,   \* handle -> the *docker.Container it holds (ID, Name, Image, Running)
  engine,    \* the engine's own state: containers, running, names, images, next id
  calls,     \* the engine calls made by the last operation, in order
  last,      \* the last operation: its name, handle, arguments, pre-state and error
  pool,      \* the PoolContainer: a sequence of handles (a handle may occur twice)
  ppc,       \* where the caller of RunAll/RemoveAll is: idle, spawn, wait, returned
  pop,       \* the pool operation in progress and its volumes flag
  spawned,   \* how many goroutines the spawning loop has started
  tpc,       \* member index -> where its goroutine is: none, ready, running, sending, done
  tres,      \* member index -> the error its Run/Remove returned
  invoked,   \* member index -> how many times Run/Remove was invoked for it
  sem,       \* the buffered result channel, capacity len(pool)
  nrecv,     \* the receiving loop's counter i
  perr,      \* the named return value err of RunAll/RemoveAll
  pret,      \* the last return of RunAll/RemoveAll: operation, error, members' errors
  epc,       \* where the caller of exec is: idle, wait, close, scan, inspect, returned
  gpc,       \* where exec's goroutine is: none, start, signal, ack, stream, failed, ok, done
  ecall,     \* the arguments of the exec call: handle, container id, command
  esuccess,  \* the channel success: open or closed
  pipe,      \* the io.Pipe: the write in progress and whether the read end is closed
  out,       \* the bytes the session has still to write
  written,   \* the bytes the session has written to the stream
  sbuf,      \* the scanner's buffer: the bytes read and not yet given out as a line
  logs,      \* the lines exec has scanned
  einspect,  \* what InspectExec answered: whether it succeeded and the exit code
  gerr,      \* what StartExec returned (errr)
  eerr,      \* exec's named result err, shared with the goroutine
  eret,      \* what exec returned: logs and error
  exited,    \* whether the process has been ended (log.Fatal)
  heap,      \* address -> the slice or map stored there (a handle's collections)
  config,    \* handle -> the addresses of its PortBindings, Binds, Env and Links
  fin,       \* the arguments of a function under test
  fout       \* whether it has been applied, and its result

hvars == <<handles, engine, calls, last>>
pvars == <<pool, ppc, pop, spawned, tpc, tres, invoked, sem, nrecv, perr, pret>>
evars == <<epc, gpc, ecall, esuccess, pipe, out, written, sbuf, logs, einspect, gerr, eerr,
           eret, exited>>
cvars == <<heap, config, fin, fout>>

\* ----------------------------------------------------------------- errors

NoErr == [kind |-> "nil", cause |-> "nil"]
Err(kind, cause) == [kind |-> kind, cause |-> cause]

\* -------------------------------------------------------- the engine gateway

Call(kind, id, image, name, force, volumes, timeout, ok) ==
  [call |-> kind, id |-> id, image |-> image, name |-> name, force |-> force,
   volumes |-> volumes, timeout |-> timeout, ok |-> ok]

Log(w, c) == [w EXCEPT !.calls = Append(@, c)]

\* What the engine answers to an inspect of container id.
Snapshot(e, id) ==
  [ID |-> id, Name |-> <<"/">> \o e.names[id], Image |-> e.image[id],
   Running |-> id \in e.running]

InspectImage(w, image, ok) ==
  LET succ == ok /\ image \in w.engine.images
  IN  [w |-> Log(w, Call("InspectImage", EmptyID, image, <<>>, FALSE, FALSE, 0, succ)),
       ok |-> succ]

DockerPullImage(w, image, ok) ==
  LET w1 == Log(w, Call("PullImage", EmptyID, image, <<>>, FALSE, FALSE, 0, ok))
  IN  [w |-> IF ok THEN [w1 EXCEPT !.engine.images = @ \cup {image}] ELSE w1,
       ok |-> ok]

CreateContainer(w, name, image, ok) ==
  LET id == w.engine.next
      succ == ok /\ id <= w.engine.cap
      w1 == Log(w, Call("CreateContainer", EmptyID, image, name, FALSE, FALSE, 0, succ))
  IN  IF succ
      THEN [w |-> [w1 EXCEPT !.engine.containers = @ \cup {id},
                             !.engine.names[id] = name,
                             !.engine.image[id] = image,
                             !.engine.next = id + 1],
            ok |-> TRUE,
            cont |-> [ID |-> id, Name |-> name, Image |-> image, Running |-> FALSE]]
      ELSE [w |-> w1, ok |-> FALSE, cont |-> [ID |-> EmptyID, Name |-> <<>>, Image |-> "", Running |-> FALSE]]

StartContainer(w, id, ok) ==
  LET succ == ok /\ id \in w.engine.containers
      w1 == Log(w, Call("StartContainer", id, "", <<>>, FALSE, FALSE, 0, succ))
  IN  [w |-> IF succ THEN [w1 EXCEPT !.engine.running = @ \cup {id}] ELSE w1,
       ok |-> succ]

StopContainer(w, id, timeout, ok) ==
  LET succ == ok /\ id \in w.engine.containers
      w1 == Log(w, Call("StopContainer", id, "", <<>>, FALSE, FALSE, timeout, succ))
  IN  [w |-> IF succ THEN [w1 EXCEPT !.engine.running = @ \ {id}] ELSE w1,
       ok |-> succ]

RemoveContainer(w, id, force, volumes, ok) ==
  LET succ == ok /\ id \in w.engine.containers
      w1 == Log(w, Call("RemoveContainer", id, "", <<>>, force, volumes, 0, succ))
  IN  [w |-> IF succ
             THEN [w1 EXCEPT !.engine.containers = @ \ {id},
                             !.engine.running = @ \ {id}]
             ELSE w1,
       ok |-> succ]

RenameContainer(w, id, name, ok) ==
  LET succ == ok /\ id \in w.engine.containers
      w1 == Log(w, Call("RenameContainer", id, "", name, FALSE, FALSE, 0, succ))
  IN  [w |-> IF succ THEN [w1 EXCEPT !.engine.names[id] = name] ELSE w1,
       ok |-> succ]

\* Client.InspectContainer: the engine's inspect, wrapped in a new handle.
InspectContainer(w, id, ok) ==
  LET succ == ok /\ id \in w.engine.containers
      w1 == Log(w, Call("InspectContainer", id, "", <<>>, FALSE, FALSE, 0, succ))
  IN  [w |-> w1, ok |-> succ,
       cont |-> IF succ THEN Snapshot(w.engine, id)
                ELSE [ID |-> EmptyID, Name |-> <<>>, Image |-> "", Running |-> FALSE]]

\* ------------------------------------------------------------ images.go

ImageExists(w, image, ok) == InspectImage(w, image, ok)

PullImage(w, image, ok) == DockerPullImage(w, image, ok)

\* --------------------------------------------------------- the handle

\* Client.NewContainer: image and name are required; the handle holds a
\* container with no id yet.
NewContainer(o) ==
  IF o.Image = "" THEN [ok |-> FALSE, err |-> Err("ImageRequired", "nil"),
                        c |-> [ID |-> EmptyID, Name |-> <<>>, Image |-> "", Running |-> FALSE]]
  ELSE IF o.Name = <<>> THEN [ok |-> FALSE, err |-> Err("NameRequired", "nil"),
                        c |-> [ID |-> EmptyID, Name |-> <<>>, Image |-> "", Running |-> FALSE]]
  ELSE [ok |-> TRUE, err |-> NoErr,
        c |-> [ID |-> EmptyID, Name |-> o.Name, Image |-> o.Image, Running |-> FALSE]]

ID(c) == c.ID

Name(c) == IF Len(c.Name) > 0 /\ c.Name[1] = "/" THEN Tail(c.Name) ELSE c.Name

Image(c) == c.Image

IsRunning(c) == c.Running

Refresh(w, h, ok) ==
  LET r == InspectContainer(w, w.handles[h].ID, ok)
  IN  IF ~r.ok
      THEN [w |-> r.w, err |-> Err("Engine", "InspectContainer")]
      ELSE [w |-> [r.w EXCEPT !.handles[h] = r.cont], err |-> NoErr]

\* Mutant of Create: the engine's answer is stored before the error is tested.
Create_AssignsBeforeCheck(w, h, ok) ==
  LET c == w.handles[h]
      r == CreateContainer(w, c.Name, c.Image, ok)
  IN  [w |-> [r.w EXCEPT !.handles[h] = r.cont],
       err |-> IF r.ok THEN NoErr ELSE Err("Engine", "CreateContainer")]

Create(w, h, ok) ==
  LET c == w.handles[h]
      r == CreateContainer(w, c.Name, c.Image, ok)
  IN  IF ~r.ok
      THEN [w |-> r.w, err |-> Err("Engine", "CreateContainer")]
      ELSE [w |-> [r.w EXCEPT !.handles[h] = r.cont], err |-> NoErr]

\* Start: the error of the trailing Refresh is dropped.
Start(w, h, ok, rok) ==
  LET r == StartContainer(w, w.handles[h].ID, ok)
  IN  IF ~r.ok
      THEN [w |-> r.w, err |-> Err("CantStartContainer", "StartContainer")]
      ELSE [w |-> Refresh(r.w, h, rok).w, err |-> NoErr]

\* Stop: the error of the trailing Refresh is dropped.
Stop(w, h, ok, rok) ==
  LET r == StopContainer(w, w.handles[h].ID, StopTimeout, ok)
  IN  IF ~r.ok
      THEN [w |-> r.w, err |-> Err("CantStopContainer", "StopContainer")]
      ELSE [w |-> Refresh(r.w, h, rok).w, err |-> NoErr]

\* Mutant of superRemove: the result of the forced removal is not looked at.
superRemove_ForcedResultDropped(w, id, volumes, gok, fok) ==
  IF id # EmptyID
  THEN LET g == RemoveContainer(w, id, FALSE, volumes, gok)
       IN  IF g.ok
           THEN [w |-> g.w, err |-> NoErr]
           ELSE LET f == RemoveContainer(g.w, id, TRUE, volumes, fok)
                IN  [w |-> f.w, err |-> Err("CantRemoveID", "RemoveContainer")]
  ELSE [w |-> w, err |-> Err("CantRemoveID", "IDEmpty")]

\* Mutant of superRemove: the id is not checked before the engine is called.
superRemove_NoIDCheck(w, id, volumes, gok, fok) ==
  LET g == RemoveContainer(w, id, FALSE, volumes, gok)
  IN  IF g.ok
      THEN [w |-> g.w, err |-> NoErr]
      ELSE LET f == RemoveContainer(g.w, id, TRUE, volumes, fok)
           IN  IF f.ok
               THEN [w |-> f.w, err |-> NoErr]
               ELSE [w |-> f.w, err |-> Err("CantRemoveID", "RemoveContainer")]

\* Mutant of superRemove: the forced removal is tried whatever the graceful
\* one returned.
superRemove_ForcesAnyway(w, id, volumes, gok, fok) ==
  IF id # EmptyID
  THEN LET g == RemoveContainer(w, id, FALSE, volumes, gok)
           f == RemoveContainer(g.w, id, TRUE, volumes, fok)
       IN  IF f.ok
           THEN [w |-> f.w, err |-> NoErr]
           ELSE [w |-> f.w, err |-> Err("CantRemoveID", "RemoveContainer")]
  ELSE [w |-> w, err |-> Err("CantRemoveID", "IDEmpty")]

\* The closure of Remove: graceful removal, then forced removal.
superRemove(w, id, volumes, gok, fok) ==
  IF id # EmptyID
  THEN LET g == RemoveContainer(w, id, FALSE, volumes, gok)
       IN  IF g.ok
           THEN [w |-> g.w, err |-> NoErr]
           ELSE LET f == RemoveContainer(g.w, id, TRUE, volumes, fok)
                IN  IF f.ok
                    THEN [w |-> f.w, err |-> NoErr]
                    ELSE [w |-> f.w, err |-> Err("CantRemoveID", "RemoveContainer")]
  ELSE [w |-> w, err |-> Err("CantRemoveID", "IDEmpty")]

Remove(w, h, volumes, gok, fok) ==
  LET r == superRemove(w, ID(w.handles[h]), volumes, gok, fok)
  IN  IF r.err = NoErr
      THEN [w |-> r.w, err |-> NoErr]
      ELSE [w |-> r.w, err |-> Err("CantRemove", r.err.cause)]

\* Mutant of StopAndRemove: Remove is called whatever Stop returned.
StopAndRemove_IgnoresStopError(w, h, volumes, sok, rok, gok, fok) ==
  LET s == Stop(w, h, sok, rok)
  IN  Remove(s.w, h, volumes, gok, fok)

StopAndRemove(w, h, volumes, sok, rok, gok, fok) ==
  LET s == Stop(w, h, sok, rok)
  IN  IF s.err # NoErr
      THEN s
      ELSE Remove(s.w, h, volumes, gok, fok)

\* Mutant of Run: the image is pulled whether or not it is there.
Run_AlwaysPulls(w, h, iok, pok, cok, sok, rok) ==
  LET image == Image(w.handles[h])
      i == ImageExists(w, image, iok)
      p == PullImage(i.w, image, pok)
  IN  IF ~p.ok
      THEN [w |-> p.w, err |-> Err("UnableToDownload", "PullImage")]
      ELSE LET c == Create(p.w, h, cok)
           IN  IF c.err # NoErr
               THEN [w |-> c.w, err |-> Err("CantCreate", c.err.cause)]
               ELSE LET s == Start(c.w, h, sok, rok)
                    IN  IF s.err # NoErr
                        THEN [w |-> s.w, err |-> Err("CantStart", s.err.cause)]
                        ELSE [w |-> s.w, err |-> NoErr]

\* Mutant of Run: a failed create does not stop the workflow.
Run_ContinuesAfterCreateError(w, h, iok, pok, cok, sok, rok) ==
  LET image == Image(w.handles[h])
      i == ImageExists(w, image, iok)
      p == IF ~i.ok THEN PullImage(i.w, image, pok) ELSE [w |-> i.w, ok |-> TRUE]
  IN  IF ~p.ok
      THEN [w |-> p.w, err |-> Err("UnableToDownload", "PullImage")]
      ELSE LET c == Create(p.w, h, cok)
               s == Start(c.w, h, sok, rok)
           IN  IF s.err # NoErr
               THEN [w |-> s.w, err |-> Err("CantStart", s.err.cause)]
               ELSE [w |-> s.w, err |-> NoErr]

\* Run: pull the image unless it is there, create, start.
Run(w, h, iok, pok, cok, sok, rok) ==
  LET image == Image(w.handles[h])
      i == ImageExists(w, image, iok)
      p == IF ~i.ok THEN PullImage(i.w, image, pok) ELSE [w |-> i.w, ok |-> TRUE]
  IN  IF ~p.ok
      THEN [w |-> p.w, err |-> Err("UnableToDownload", "PullImage")]
      ELSE LET c == Create(p.w, h, cok)
           IN  IF c.err # NoErr
               THEN [w |-> c.w, err |-> Err("CantCreate", c.err.cause)]
               ELSE LET s == Start(c.w, h, sok, rok)
                    IN  IF s.err # NoErr
                        THEN [w |-> s.w, err |-> Err("CantStart", s.err.cause)]
                        ELSE [w |-> s.w, err |-> NoErr]

Rename(w, h, newName, ok, rok) ==
  IF newName = <<>>
  THEN [w |-> w, err |-> Err("NewNameEmpty", "nil")]
  ELSE LET n == IF newName[1] = "/" THEN Tail(newName) ELSE newName
           r == RenameContainer(w, ID(w.handles[h]), n, ok)
       IN  IF ~r.ok
           THEN [w |-> r.w, err |-> Err("CantRename", "RenameContainer")]
           ELSE Refresh(r.w, h, rok)

\* -------------------------------------------------- the handle's operations

\* The engine's logs call: it streams the logs of an existing container.
DockerLogs(w, id, ok) ==
  LET succ == ok /\ id \in w.engine.containers
  IN  [w |-> Log(w, Call("Logs", id, "", <<>>, FALSE, FALSE, 0, succ)), ok |-> succ]

\* Logs: the container's logs are written to the caller's streams.
Logs(w, h, ok) ==
  LET r == DockerLogs(w, ID(w.handles[h]), ok)
  IN  IF ~r.ok
      THEN [w |-> r.w, err |-> Err("CantGetLogs", "Logs")]
      ELSE [w |-> r.w, err |-> NoErr]

World == [handles |-> handles, engine |-> engine, calls |-> <<>>]

\* The effect of an operation on the handles, the engine and the records of
\* the last operation.
OpH(op, h, volumes, newName, r) ==
  /\ handles' = r.w.handles
  /\ engine' = r.w.engine
  /\ calls' = r.w.calls
  /\ last' = [op |-> op, h |-> h, volumes |-> volumes, newName |-> newName,
              pre |-> handles[h], err |-> r.err]
  /\ UNCHANGED <<pvars, evars>>

\* An operation that leaves the handles' collections alone.
Op(op, h, volumes, newName, r) ==
  /\ OpH(op, h, volumes, newName, r)
  /\ UNCHANGED cvars

DoCreate(h) ==
  \E ok \in BOOLEAN : Op("Create", h, FALSE, <<>>, Create(World, h, ok))

DoStart(h) ==
  \E ok, rok \in BOOLEAN : Op("Start", h, FALSE, <<>>, Start(World, h, ok, rok))

DoStop(h) ==
  \E ok, rok \in BOOLEAN : Op("Stop", h, FALSE, <<>>, Stop(World, h, ok, rok))

DoRefresh(h) ==
  \E ok \in BOOLEAN : Op("Refresh", h, FALSE, <<>>, Refresh(World, h, ok))

DoRemove(h) ==
  \E volumes, gok, fok \in BOOLEAN :
    Op("Remove", h, volumes, <<>>, Remove(World, h, volumes, gok, fok))

DoStopAndRemove(h) ==
  \E volumes, sok, rok, gok, fok \in BOOLEAN :
    Op("StopAndRemove", h, volumes, <<>>,
       StopAndRemove(World, h, volumes, sok, rok, gok, fok))

DoRun(h) ==
  \E iok, pok, cok, sok, rok \in BOOLEAN :
    Op("Run", h, FALSE, <<>>, Run(World, h, iok, pok, cok, sok, rok))

DoRename(h) ==
  \E newName \in NewNames : \E ok, rok \in BOOLEAN :
    Op("Rename", h, FALSE, newName, Rename(World, h, newName, ok, rok))

DoLogs(h) ==
  \E ok \in BOOLEAN : Op("Logs", h, FALSE, <<>>, Logs(World, h, ok))

InitEngine(cap) ==
  [containers |-> {}, running |-> {},
   names |-> [i \in 1..cap |-> <<>>], image |-> [i \in 1..cap |-> ""],
   images |-> {}, next |-> 1, cap |-> cap]

NoPoolOp == [op |-> "none", volumes |-> FALSE]

NoPoolReturn == [op |-> "none", volumes |-> FALSE, err |-> NoErr, results |-> <<>>]

\* The pool variables when no pool operation has been called.
PoolIdle ==
  /\ pool = <<>>
  /\ ppc = "idle"
  /\ pop = NoPoolOp
  /\ spawned = 0
  /\ tpc = <<>>
  /\ tres = <<>>
  /\ invoked = <<>>
  /\ sem = <<>>
  /\ nrecv = 0
  /\ perr = NoErr
  /\ pret = NoPoolReturn

NoExecCall == [h |-> "h1", id |-> EmptyID, cmd |-> <<>>]

NoExecReturn == [returned |-> FALSE, logs |-> <<>>, err |-> NoErr]

NoInspect == [ok |-> FALSE, code |-> 0]

\* The exec variables when exec has not been called.
ExecIdle ==
  /\ epc = "idle"
  /\ gpc = "none"
  /\ ecall = NoExecCall
  /\ esuccess = "open"
  /\ pipe = [data |-> <<>>, rclosed |-> FALSE]
  /\ out = <<>>
  /\ written = <<>>
  /\ sbuf = <<>>
  /\ logs = <<>>
  /\ einspect = NoInspect
  /\ gerr = NoErr
  /\ eerr = NoErr
  /\ eret = NoExecReturn
  /\ exited = FALSE

\* The collections a handle's configuration refers to.
Fields == {"PortBindings", "Binds", "Env", "Links"}

\* Every handle's four collections have addresses of their own when made.
Addr(h, f) ==
  (IF h = "h1" THEN 0 ELSE 4)
    + (CASE f = "PortBindings" -> 1 [] f = "Binds" -> 2 [] f = "Env" -> 3 [] f = "Links" -> 4)

Addrs == {Addr(h, f) : h \in PoolHandles, f \in Fields}

\* A nil slice or map, and one holding items.
NilValue == [nil |-> TRUE, items |-> <<>>]
Value(items) == [nil |-> FALSE, items |-> items]

\* The collections NewContainer makes from options o: portBindings and
\* volumeBindings are built anew (never nil), Env and Links are o's slices.
NewCollections(o) ==
  [PortBindings |-> Value(o.PortBindings), Binds |-> Value(o.Binds),
   Env |-> o.Env, Links |-> o.Links]

NoOptions == [PortBindings |-> <<>>, Binds |-> <<>>, Env |-> NilValue, Links |-> NilValue]

\* No function is under test.
PureIdle ==
  /\ fin = [fn |-> "none"]
  /\ fout = [done |-> FALSE]

\* Handles whose collections are those of NewContainer without options.
CollectionsIdle ==
  /\ config = [h \in PoolHandles |-> [f \in Fields |-> Addr(h, f)]]
  /\ heap = [a \in Addrs |->
              LET h == CHOOSE x \in PoolHandles : \E f \in Fields : Addr(x, f) = a
                  f == CHOOSE y \in Fields : Addr(h, y) = a
              IN  NewCollections(NoOptions)[f]]

ConfigIdle == CollectionsIdle /\ PureIdle

NoOp ==
  [op |-> "none", h |-> "h1", volumes |-> FALSE, newName |-> <<>>,
   pre |-> [ID |-> EmptyID, Name |-> <<>>, Image |-> "", Running |-> FALSE],
   err |-> NoErr]

Init ==
  /\ \E i \in Images :
       handles = [h \in Handles |-> NewContainer([Image |-> i, Name |-> HandleName(h)]).c]
  /\ \E present \in SUBSET Images : engine = [InitEngine(MaxIds) EXCEPT !.images = present]
  /\ calls = <<>>
  /\ last = NoOp
  /\ PoolIdle
  /\ ExecIdle
  /\ ConfigIdle

Next ==
  \E h \in Handles :
    \/ DoCreate(h)
    \/ DoStart(h)
    \/ DoStop(h)
    \/ DoRefresh(h)
    \/ DoRemove(h)
    \/ DoStopAndRemove(h)
    \/ DoRun(h)
    \/ DoRename(h)
    \/ DoLogs(h)

vars == <<handles, engine, calls, last, pool, ppc, pop, spawned, tpc, tres, invoked,
          sem, nrecv, perr, pret, epc, gpc, ecall, esuccess, pipe, out, written, sbuf,
          logs, einspect, gerr, eerr, eret, exited, heap, config, fin,
          fout>>

Spec == Init /\ [][Next]_vars

\* The world in which the handles of hs have been run with success, one
\* after the other, and the others are as NewContainer made them.
RECURSIVE RunEach(_, _)
RunEach(w, hs) ==
  IF hs = {} THEN w
  ELSE LET h == CHOOSE x \in hs : TRUE
       IN  RunEach(Run(w, h, TRUE, TRUE, TRUE, TRUE, TRUE).w, hs \ {h})

\* ------------------------------------------------------ the pool: RunAll, RemoveAll

\* Mutant of PoolDone: the receiving loop stops at the first error.
PoolDone_StopsAtFirstError == nrecv = Len(pool) \/ perr # NoErr

\* The receiving loop's exit test: i < len(pool) no longer holds.
PoolDone == nrecv = Len(pool)

\* Entering RunAll or RemoveAll: the channel is made with capacity len(pool)
\* and the spawning loop starts (an empty pool goes straight to the receiving loop).
CallPool(o) ==
  /\ ppc = "idle"
  /\ ppc' = IF Len(pool) = 0 THEN "wait" ELSE "spawn"
  /\ pop' = o
  /\ spawned' = 0
  /\ tpc' = [i \in DOMAIN pool |-> "none"]
  /\ tres' = [i \in DOMAIN pool |-> NoErr]
  /\ invoked' = [i \in DOMAIN pool |-> 0]
  /\ sem' = <<>>
  /\ nrecv' = 0
  /\ perr' = NoErr
  /\ UNCHANGED <<pool, pret, hvars, evars, cvars>>

RunAll == CallPool([op |-> "RunAll", volumes |-> FALSE])

RemoveAll == \E volumes \in BOOLEAN : CallPool([op |-> "RemoveAll", volumes |-> volumes])

\* One turn of the spawning loop: go func(v) for the next member.
Spawn ==
  /\ ppc = "spawn"
  /\ spawned < Len(pool)
  /\ spawned' = spawned + 1
  /\ tpc' = [tpc EXCEPT ![spawned + 1] = "ready"]
  /\ ppc' = IF spawned + 1 = Len(pool) THEN "wait" ELSE "spawn"
  /\ UNCHANGED <<pool, pop, tres, invoked, sem, nrecv, perr, pret, hvars, evars, cvars>>

\* The goroutine of member i is scheduled and calls v.Run() or v.Remove(volumes).
TaskBegin(i) ==
  /\ tpc[i] = "ready"
  /\ tpc' = [tpc EXCEPT ![i] = "running"]
  /\ invoked' = [invoked EXCEPT ![i] = @ + 1]
  /\ UNCHANGED <<pool, ppc, pop, spawned, tres, sem, nrecv, perr, pret, hvars, evars,
                 cvars>>

TaskDone(i, r) ==
  /\ handles' = r.w.handles
  /\ engine' = r.w.engine
  /\ tres' = [tres EXCEPT ![i] = r.err]
  /\ tpc' = [tpc EXCEPT ![i] = "sending"]
  /\ UNCHANGED <<calls, last, pool, ppc, pop, spawned, invoked, sem, nrecv, perr, pret,
                 evars, cvars>>

\* v.Run() of member i returns.
TaskRun(i) ==
  /\ tpc[i] = "running"
  /\ pop.op = "RunAll"
  /\ \E iok, pok, cok, sok, rok \in BOOLEAN :
       TaskDone(i, Run(World, pool[i], iok, pok, cok, sok, rok))

\* v.Remove(volumes) of member i returns.
TaskRemove(i) ==
  /\ tpc[i] = "running"
  /\ pop.op = "RemoveAll"
  /\ \E gok, fok \in BOOLEAN :
       TaskDone(i, Remove(World, pool[i], pop.volumes, gok, fok))

\* Mutant of SemCap: the channel is made one slot short.
SemCap_OneShort == Len(pool) - 1

\* The capacity of sem: make(chan error, len(pool)).
SemCap == Len(pool)

\* sem <- result: blocks while the channel is full.
TaskSend(i) ==
  /\ tpc[i] = "sending"
  /\ Len(sem) < SemCap
  /\ sem' = Append(sem, tres[i])
  /\ tpc' = [tpc EXCEPT ![i] = "done"]
  /\ UNCHANGED <<pool, ppc, pop, spawned, tres, invoked, nrecv, perr, pret, hvars, evars,
                 cvars>>

\* err = <-sem in the receiving loop: every received value overwrites err.
Recv ==
  /\ ppc = "wait"
  /\ ~PoolDone
  /\ sem # <<>>
  /\ perr' = Head(sem)
  /\ sem' = Tail(sem)
  /\ nrecv' = nrecv + 1
  /\ UNCHANGED <<pool, ppc, pop, spawned, tpc, tres, invoked, pret, hvars, evars, cvars>>

\* RunAll/RemoveAll returns err.
Return ==
  /\ ppc = "wait"
  /\ PoolDone
  /\ ppc' = "returned"
  /\ pret' = [op |-> pop.op, volumes |-> pop.volumes, err |-> perr, results |-> tres]
  /\ UNCHANGED <<pool, pop, spawned, tpc, tres, invoked, sem, nrecv, perr, hvars, evars,
                 cvars>>

Pools == UNION {[1..n -> PoolHandles] : n \in 0..MaxPool}

\* The pool operations are called on handles that are new or running.
InitPool ==
  /\ \E i \in Images, present \in SUBSET Images, ran \in SUBSET PoolHandles :
       LET w0 == [handles |-> [h \in PoolHandles |->
                                NewContainer([Image |-> i, Name |-> HandleName(h)]).c],
                  engine |-> [InitEngine(MaxPool + Cardinality(PoolHandles))
                                EXCEPT !.images = present],
                  calls |-> <<>>]
           w == RunEach(w0, ran)
       IN  handles = w.handles /\ engine = w.engine
  /\ calls = <<>>
  /\ last = NoOp
  /\ pool \in Pools
  /\ ppc = "idle"
  /\ pop = NoPoolOp
  /\ spawned = 0
  /\ tpc = [i \in DOMAIN pool |-> "none"]
  /\ tres = [i \in DOMAIN pool |-> NoErr]
  /\ invoked = [i \in DOMAIN pool |-> 0]
  /\ sem = <<>>
  /\ nrecv = 0
  /\ perr = NoErr
  /\ pret = NoPoolReturn
  /\ ExecIdle
  /\ ConfigIdle

NextPool ==
  \/ RunAll
  \/ RemoveAll
  \/ Spawn
  \/ \E i \in DOMAIN pool : TaskBegin(i)
  \/ \E i \in DOMAIN pool : TaskRun(i)
  \/ \E i \in DOMAIN pool : TaskRemove(i)
  \/ \E i \in DOMAIN pool : TaskSend(i)
  \/ Recv
  \/ Return

SpecPool == InitPool /\ [][NextPool]_vars

\* The steps of a pool operation once it has been called: the scheduler runs
\* every goroutine that can run, and every member operation comes back.
PoolStep ==
  \/ Spawn
  \/ \E i \in DOMAIN pool : TaskBegin(i)
  \/ \E i \in DOMAIN pool : TaskRun(i)
  \/ \E i \in DOMAIN pool : TaskRemove(i)
  \/ \E i \in DOMAIN pool : TaskSend(i)
  \/ Recv
  \/ Return

\* The pool operations called on handles that are all new, the image present.
InitPoolNew ==
  /\ InitPool
  /\ \A h \in PoolHandles : ID(handles[h]) = EmptyID
  /\ engine.images = Images

SpecPoolFair == InitPoolNew /\ [][NextPool]_vars /\ WF_vars(PoolStep)

\* ----------------------------------------------------------------- exec

CreateExec(w, id, ok) ==
  LET succ == ok /\ id \in w.engine.containers /\ id \in w.engine.running
  IN  [w |-> Log(w, Call("CreateExec", id, "", <<>>, FALSE, FALSE, 0, succ)),
       ok |-> succ]

ExecReturn(l, e) == [returned |-> TRUE, logs |-> l, err |-> e]

\* Mutant of ExecIDMissing: exec goes on without an id.
ExecIDMissing_Never(c) == FALSE

\* exec's first test: c.ID() == "".
ExecIDMissing(c) == ID(c) = EmptyID

\* exec up to its wait on success: the id check, CreateExec, go func().
ExecCall(h, cmd) ==
  /\ ~exited
  /\ epc = "idle"
  /\ ecall' = [h |-> h, id |-> ID(handles[h]), cmd |-> cmd]
  /\ IF ExecIDMissing(handles[h])
     THEN /\ epc' = "returned"
          /\ eret' = ExecReturn(logs, Err("NotExist", "IDEmpty"))
          /\ calls' = <<>>
          /\ UNCHANGED <<gpc, eerr>>
     ELSE \E ok \in BOOLEAN :
            LET r == CreateExec(World, ID(handles[h]), ok)
            IN  /\ calls' = r.w.calls
                /\ IF r.ok
                   THEN /\ epc' = "wait"
                        /\ gpc' = "start"
                        /\ UNCHANGED <<eret, eerr>>
                   ELSE /\ epc' = "returned"
                        /\ eerr' = Err("Engine", "CreateExec")
                        /\ eret' = ExecReturn(logs, Err("Engine", "CreateExec"))
                        /\ UNCHANGED gpc
  /\ UNCHANGED <<handles, engine, last, pvars, esuccess, pipe, out, written, logs, gerr,
                 exited, sbuf, einspect, cvars>>

\* The goroutine calls StartExec: the engine rejects the start, or the
\* session is attached and the library offers the success signal.
StartExecBegin ==
  /\ ~exited
  /\ gpc = "start"
  /\ \E ok \in BOOLEAN :
       /\ calls' = Append(calls, Call("StartExec", ecall.id, "", <<>>, FALSE, FALSE, 0, ok))
       /\ IF ok
          THEN /\ gpc' = "signal"
               /\ out' \in Outputs
               /\ UNCHANGED gerr
          ELSE /\ gpc' = "failed"
               /\ gerr' = Err("Engine", "StartExec")
               /\ UNCHANGED out
  /\ UNCHANGED <<handles, engine, last, pvars, epc, ecall, esuccess, pipe, written, logs,
                 eerr, eret, exited, sbuf, einspect, cvars>>

\* <-success: the caller receives the signal the library sends.
ExecRecvSuccess ==
  /\ ~exited
  /\ epc = "wait"
  /\ gpc = "signal"
  /\ epc' = "close"
  /\ gpc' = "ack"
  /\ UNCHANGED <<hvars, pvars, ecall, esuccess, pipe, out, written, logs, gerr, eerr, eret,
                 exited, sbuf, einspect, cvars>>

\* close(success), then the test of err.
ExecCloseSuccess ==
  /\ ~exited
  /\ epc = "close"
  /\ esuccess' = "closed"
  /\ IF eerr # NoErr
     THEN /\ epc' = "returned"
          /\ eret' = ExecReturn(logs, eerr)
     ELSE /\ epc' = "scan"
          /\ UNCHANGED eret
  /\ UNCHANGED <<hvars, pvars, gpc, ecall, pipe, out, written, logs, gerr, eerr, exited,
                 sbuf, einspect, cvars>>

\* The library's own <-success returns once the channel is closed.
StartExecAcked ==
  /\ ~exited
  /\ gpc = "ack"
  /\ esuccess = "closed"
  /\ gpc' = "stream"
  /\ UNCHANGED <<hvars, pvars, epc, ecall, esuccess, pipe, out, written, logs, gerr, eerr,
                 eret, exited, sbuf, einspect, cvars>>

\* The session writes its next bytes to the pipe: w.Write(p) lasts until the
\* reader has taken all of p.
StartExecWrite ==
  /\ ~exited
  /\ gpc = "stream"
  /\ out # <<>>
  /\ pipe.data = <<>>
  /\ ~pipe.rclosed
  /\ \E k \in 1..Len(out) :
       /\ pipe' = [pipe EXCEPT !.data = SubSeq(out, 1, k)]
       /\ written' = written \o SubSeq(out, 1, k)
       /\ out' = SubSeq(out, k + 1, Len(out))
  /\ UNCHANGED <<hvars, pvars, epc, gpc, ecall, esuccess, logs, gerr, eerr, eret, exited,
                 sbuf, einspect, cvars>>

\* The session is over: StartExec returns nil.
StartExecReturn ==
  /\ ~exited
  /\ gpc = "stream"
  /\ out = <<>>
  /\ pipe.data = <<>>
  /\ gpc' = "ok"
  /\ UNCHANGED <<hvars, pvars, epc, ecall, esuccess, pipe, out, written, logs, gerr, eerr,
                 eret, exited, sbuf, einspect, cvars>>

\* The stream breaks: StartExec returns an error.
StartExecStreamError ==
  /\ ~exited
  /\ gpc = "stream"
  /\ pipe.data = <<>>
  /\ gpc' = "failed"
  /\ gerr' = Err("Engine", "StartExec")
  /\ UNCHANGED <<hvars, pvars, epc, ecall, esuccess, pipe, out, written, logs, eerr, eret,
                 exited, sbuf, einspect, cvars>>

\* errr != nil: log.Fatal(errr) prints and ends the process; the
\* assignment err = errr and the deferred r.Close() are never reached.
GoFatal ==
  /\ ~exited
  /\ gpc = "failed"
  /\ exited' = TRUE
  /\ UNCHANGED <<hvars, pvars, epc, gpc, ecall, esuccess, pipe, out, written, logs, gerr,
                 eerr, eret, sbuf, einspect, cvars>>

\* errr == nil: the goroutine ends and the deferred r.Close() runs.
GoCloseReader ==
  /\ ~exited
  /\ gpc = "ok"
  /\ gpc' = "done"
  /\ pipe' = [pipe EXCEPT !.rclosed = TRUE]
  /\ UNCHANGED <<hvars, pvars, epc, ecall, esuccess, out, written, logs, gerr, eerr, eret,
                 exited, sbuf, einspect, cvars>>

\* bytes.IndexByte(data, '\n'), counted from 1; 0 when there is none.
IndexNewline(data) ==
  IF \E i \in DOMAIN data : data[i] = "\n"
  THEN CHOOSE i \in DOMAIN data : data[i] = "\n" /\ \A j \in 1..(i - 1) : data[j] # "\n"
  ELSE 0

\* bufio's dropCR: a line loses one trailing carriage return.
dropCR(data) ==
  IF data # <<>> /\ data[Len(data)] = "\r" THEN SubSeq(data, 1, Len(data) - 1) ELSE data

\* bufio.ScanLines: the next line of data, if it holds one.
ScanLines(data, atEOF) ==
  LET i == IndexNewline(data)
  IN  IF atEOF /\ data = <<>> THEN [advance |-> 0, has |-> FALSE, token |-> <<>>]
      ELSE IF i > 0 THEN [advance |-> i, has |-> TRUE, token |-> dropCR(SubSeq(data, 1, i - 1))]
      ELSE IF atEOF THEN [advance |-> Len(data), has |-> TRUE, token |-> dropCR(data)]
      ELSE [advance |-> 0, has |-> FALSE, token |-> <<>>]

\* scanner.Scan() finds a line in its buffer: logs = append(logs, scanner.Text()).
ExecScan ==
  /\ ~exited
  /\ epc = "scan"
  /\ ScanLines(sbuf, FALSE).has
  /\ logs' = Append(logs, ScanLines(sbuf, FALSE).token)
  /\ sbuf' = SubSeq(sbuf, ScanLines(sbuf, FALSE).advance + 1, Len(sbuf))
  /\ UNCHANGED <<hvars, pvars, epc, gpc, ecall, esuccess, pipe, out, written, gerr, eerr,
                 eret, exited, einspect, cvars>>

\* scanner.Scan() has no whole line and room in its buffer: it reads from the
\* pipe what the write in progress offers, as far as the buffer goes.
ExecScanRead ==
  /\ ~exited
  /\ epc = "scan"
  /\ ~ScanLines(sbuf, FALSE).has
  /\ Len(sbuf) < MaxScanTokenSize
  /\ pipe.data # <<>>
  /\ \E n \in 1..Len(pipe.data) :
       /\ n <= MaxScanTokenSize - Len(sbuf)
       /\ sbuf' = sbuf \o SubSeq(pipe.data, 1, n)
       /\ pipe' = [pipe EXCEPT !.data = SubSeq(pipe.data, n + 1, Len(pipe.data))]
  /\ UNCHANGED <<hvars, pvars, epc, gpc, ecall, esuccess, out, written, logs, gerr, eerr,
                 eret, exited, einspect, cvars>>

\* scanner.Scan() has no whole line and its buffer is full at its largest
\* size: it returns false (bufio.ErrTooLong) and the loop ends; exec does not
\* look at scanner.Err().
ExecScanTooLong ==
  /\ ~exited
  /\ epc = "scan"
  /\ ~ScanLines(sbuf, FALSE).has
  /\ Len(sbuf) >= MaxScanTokenSize
  /\ epc' = "inspect"
  /\ UNCHANGED <<hvars, pvars, gpc, ecall, esuccess, pipe, out, written, sbuf, logs, gerr,
                 eerr, eret, exited, einspect, cvars>>

\* The read end is closed: the read fails, scanner.Scan() gives out what is
\* left in its buffer as the last line, and then returns false.
ExecScanEnd ==
  /\ ~exited
  /\ epc = "scan"
  /\ ~ScanLines(sbuf, FALSE).has
  /\ Len(sbuf) < MaxScanTokenSize
  /\ pipe.data = <<>>
  /\ pipe.rclosed
  /\ logs' = IF ScanLines(sbuf, TRUE).has THEN Append(logs, ScanLines(sbuf, TRUE).token)
             ELSE logs
  /\ sbuf' = <<>>
  /\ epc' = "inspect"
  /\ UNCHANGED <<hvars, pvars, gpc, ecall, esuccess, pipe, out, written, gerr, eerr, eret,
                 exited, einspect, cvars>>

\* strings.Join(cmd, " ").
RECURSIVE Join(_)
Join(cmd) ==
  IF cmd = <<>> THEN <<>>
  ELSE IF Len(cmd) = 1 THEN <<cmd[1]>>
  ELSE <<cmd[1], " ">> \o Join(Tail(cmd))

\* Mutant of ExecResult: the exit code is not looked at.
ExecResult_IgnoresExitCode(l, cmd, ok, code) ==
  IF ~ok THEN ExecReturn(l, Err("Engine", "InspectExec")) ELSE ExecReturn(l, NoErr)

\* What exec returns after InspectExec answered (ok, code).
ExecResult(l, cmd, ok, code) ==
  IF ~ok THEN ExecReturn(l, Err("Engine", "InspectExec"))
  ELSE IF code # 0
       THEN ExecReturn(l, [kind |-> "CommandFailed", cause |-> <<Join(cmd), code>>])
  ELSE ExecReturn(l, NoErr)

\* InspectExec and the test of the exit code.
ExecInspect ==
  /\ ~exited
  /\ epc = "inspect"
  /\ \E ok \in BOOLEAN, code \in ExitCodes :
       /\ calls' = Append(calls, Call("InspectExec", ecall.id, "", <<>>, FALSE, FALSE, 0, ok))
       /\ einspect' = [ok |-> ok, code |-> IF ok THEN code ELSE 0]
       /\ eret' = ExecResult(logs, ecall.cmd, ok, code)
       /\ eerr' = eret'.err
  /\ epc' = "returned"
  /\ UNCHANGED <<handles, engine, last, pvars, gpc, ecall, esuccess, pipe, out, written,
                 logs, gerr, exited, sbuf, cvars>>

\* exec is called on a handle that is new or running.
InitExec ==
  /\ \E i \in Images, present \in SUBSET Images, ran \in SUBSET Handles :
       LET w0 == [handles |-> [h \in Handles |->
                                NewContainer([Image |-> i, Name |-> HandleName(h)]).c],
                  engine |-> [InitEngine(MaxIds) EXCEPT !.images = present],
                  calls |-> <<>>]
           w == RunEach(w0, ran)
       IN  handles = w.handles /\ engine = w.engine
  /\ calls = <<>>
  /\ last = NoOp
  /\ PoolIdle
  /\ ExecIdle
  /\ ConfigIdle

NextExec ==
  \/ \E h \in Handles, cmd \in Cmds : ExecCall(h, cmd)
  \/ StartExecBegin
  \/ ExecRecvSuccess
  \/ ExecCloseSuccess
  \/ StartExecAcked
  \/ StartExecWrite
  \/ StartExecReturn
  \/ StartExecStreamError
  \/ GoFatal
  \/ GoCloseReader
  \/ ExecScan
  \/ ExecScanRead
  \/ ExecScanTooLong
  \/ ExecScanEnd
  \/ ExecInspect

SpecExec == InitExec /\ [][NextExec]_vars

\* ------------------------------------------- the handle's configuration

\* Values a caller may store in a handle's configuration: "" and <<>> are the
\* empty image and the empty name.
ConfigImages == Images \cup {""}
ConfigNames(h) == {<<>>, HandleName(h)}

\* The caller assigns c.Container.Config.Image (Container is an exported field).
SetImage(w, h, image) == [w |-> [w EXCEPT !.handles[h].Image = image], err |-> NoErr]

\* The caller assigns c.Container.Name.
SetName(w, h, name) == [w |-> [w EXCEPT !.handles[h].Name = name], err |-> NoErr]

\* Clone: a copy of the handle's container made through JSON, its ID cleared;
\* the handle dst now stands for the copy.
Clone(w, src, dst) ==
  [w |-> [w EXCEPT !.handles[dst] = [w.handles[src] EXCEPT !.ID = EmptyID]], err |-> NoErr]

DoSetImage(h) ==
  \E image \in ConfigImages : Op("SetImage", h, FALSE, <<>>, SetImage(World, h, image))

DoSetName(h) ==
  \E name \in ConfigNames(h) : Op("SetName", h, FALSE, <<>>, SetName(World, h, name))

\* json.Marshal of a collection field: the field is tagged omitempty in
\* docker.Container, so a nil or empty collection is left out.
Marshal(v) ==
  IF v.nil \/ v.items = <<>> THEN [present |-> FALSE, items |-> <<>>]
  ELSE [present |-> TRUE, items |-> v.items]

\* json.Unmarshal into a new docker.Container: a field that is present is
\* decoded into a collection of its own, an absent one stays nil.
Unmarshal(j) == IF j.present THEN Value(j.items) ELSE NilValue

\* Mutant of CloneCollections: the clone refers to the original's collections.
CloneCollections_Shallow(hp, cf, src, dst) ==
  [heap |-> hp, config |-> [cf EXCEPT ![dst] = cf[src]]]

\* Clone's effect on the collections: every collection of src is encoded and
\* decoded into a collection of the clone's own.
CloneCollections(hp, cf, src, dst) ==
  [heap |-> [a \in Addrs |->
              IF \E f \in Fields : a = Addr(dst, f)
              THEN LET f == CHOOSE y \in Fields : a = Addr(dst, y)
                   IN  Unmarshal(Marshal(hp[cf[src][f]]))
              ELSE hp[a]],
   config |-> [cf EXCEPT ![dst] = [f \in Fields |-> Addr(dst, f)]]]

DoClone(src, dst) ==
  /\ OpH("Clone", dst, FALSE, <<>>, Clone(World, src, dst))
  /\ heap' = CloneCollections(heap, config, src, dst).heap
  /\ config' = CloneCollections(heap, config, src, dst).config
  /\ UNCHANGED <<fin, fout>>

\* The item a caller stores in a collection ("x" is what the options held).
Items == {"y"}
Slices == {"Binds", "Env", "Links"}

\* The caller assigns an element of one of the handle's slices in place,
\* as in c.Container.Config.Env[i] = v.
DoSetItem(h) ==
  \E f \in Slices : \E i \in DOMAIN heap[config[h][f]].items : \E v \in Items :
    /\ OpH("SetItem", h, FALSE, <<>>, [w |-> World, err |-> NoErr])
    /\ heap' = [heap EXCEPT ![config[h][f]].items[i] = v]
    /\ UNCHANGED <<config, fin, fout>>

\* The caller stores an entry in the handle's PortBindings map (a nil map
\* cannot be stored into).
DoMapSet(h) ==
  \E k \in Items :
    /\ ~heap[config[h]["PortBindings"]].nil
    /\ OpH("MapSet", h, FALSE, <<>>, [w |-> World, err |-> NoErr])
    /\ heap' = [heap EXCEPT ![config[h]["PortBindings"]].items = <<k>>]
    /\ UNCHANGED <<config, fin, fout>>

\* The caller deletes the entries of the handle's PortBindings map.
DoMapDelete(h) ==
  /\ OpH("MapDelete", h, FALSE, <<>>, [w |-> World, err |-> NoErr])
  /\ heap' = [heap EXCEPT ![config[h]["PortBindings"]].items = <<>>]
  /\ UNCHANGED <<config, fin, fout>>

\* Options naming one port binding, one bind, one variable and one link.
AllOptions ==
  [PortBindings |-> <<"x">>, Binds |-> <<"x">>, Env |-> Value(<<"x">>),
   Links |-> Value(<<"x">>)]

\* h1 made by NewContainer with or without options and then run, so that it has an
\* ID; h2 made without options.
InitClone ==
  /\ \E i \in Images, ran \in {{"h1"}} :
       LET w0 == [handles |-> [h \in PoolHandles |->
                                NewContainer([Image |-> i, Name |-> HandleName(h)]).c],
                  engine |-> [InitEngine(MaxIds) EXCEPT !.images = Images],
                  calls |-> <<>>]
           w == RunEach(w0, ran)
       IN  handles = w.handles /\ engine = w.engine
  /\ calls = <<>>
  /\ last = NoOp
  /\ PoolIdle
  /\ ExecIdle
  /\ PureIdle
  /\ config = [h \in PoolHandles |-> [f \in Fields |-> Addr(h, f)]]
  /\ \E o1 \in {NoOptions, AllOptions} :
       heap = [a \in Addrs |->
                LET h == CHOOSE x \in PoolHandles : \E f \in Fields : Addr(x, f) = a
                    f == CHOOSE y \in Fields : Addr(h, y) = a
                IN  NewCollections(IF h = "h1" THEN o1 ELSE NoOptions)[f]]

NextClone ==
  \/ \E src, dst \in PoolHandles : src # dst /\ DoClone(src, dst)
  \/ \E h \in PoolHandles : DoSetItem(h)
  \/ \E h \in PoolHandles : DoMapSet(h)
  \/ \E h \in PoolHandles : DoMapDelete(h)
  \/ \E h \in PoolHandles : DoSetImage(h)

SpecClone == InitClone /\ [][NextClone]_vars

\* Two handles as NewContainer made them, on an engine holding no container.
InitConfig ==
  /\ \E i \in Images :
       handles = [h \in PoolHandles |-> NewContainer([Image |-> i, Name |-> HandleName(h)]).c]
  /\ engine = InitEngine(MaxIds)
  /\ calls = <<>>
  /\ last = NoOp
  /\ PoolIdle
  /\ ExecIdle
  /\ ConfigIdle

NextConfig ==
  \/ \E h \in PoolHandles : DoSetImage(h)
  \/ \E h \in PoolHandles : DoSetName(h)
  \/ \E src, dst \in PoolHandles : src # dst /\ DoClone(src, dst)
  \/ \E h \in PoolHandles : DoCreate(h)

SpecConfig == InitConfig /\ [][NextConfig]_vars

\* ------------------------------------------- NewContainer's port bindings

ContainerPorts == {"80", "53"}
HostPorts == {"8080", "9090"}
Protocols == {"", "udp", "tcp", "UDP"}
PortBindingOptions ==
  UNION {[1..n -> [ContainerPort : ContainerPorts, HostPort : HostPorts,
                   Protocol : Protocols]] : n \in 0..MaxBindings}

\* Mutant of EffectiveProtocol: only the empty protocol becomes "tcp".
EffectiveProtocol_OnlyEmptyDefaults(protocol) ==
  IF protocol = "" THEN "tcp" ELSE protocol

\* binding.Protocol after the test of the loop: TCP port by default.
EffectiveProtocol(protocol) ==
  IF protocol = "" \/ protocol # "udp" THEN "tcp" ELSE protocol

\* docker.Port(binding.ContainerPort + "/" + binding.Protocol).
Port(binding) == <<binding.ContainerPort, "/", EffectiveProtocol(binding.Protocol)>>

\* m[k] = v on a Go map.
MapPut(m, k, v) == [x \in DOMAIN m \cup {k} |-> IF x = k THEN v ELSE m[x]]

\* The loop over o.PortBindings, from the maps built so far.
RECURSIVE PortLoop(_, _)
PortLoop(bindings, maps) ==
  IF bindings = <<>> THEN maps
  ELSE LET binding == Head(bindings)
           port == Port(binding)
       IN  PortLoop(Tail(bindings),
                    [exposedPorts |-> maps.exposedPorts \cup {port},
                     portBindings |->
                       MapPut(maps.portBindings, port,
                              <<[HostIP |-> "0.0.0.0", HostPort |-> binding.HostPort]>>)])

\* The exposed ports and the port bindings NewContainer builds.
NewPortMaps(bindings) == PortLoop(bindings, [exposedPorts |-> {}, portBindings |-> <<>>])

\* A function is about to be applied to arguments f; nothing else goes on.
InitPure(f) ==
  /\ \E i \in Images :
       handles = [h \in Handles |-> NewContainer([Image |-> i, Name |-> HandleName(h)]).c]
  /\ engine = InitEngine(MaxIds)
  /\ calls = <<>>
  /\ last = NoOp
  /\ PoolIdle
  /\ ExecIdle
  /\ CollectionsIdle
  /\ fin = f
  /\ fout = [done |-> FALSE]

InitPorts ==
  \E bindings \in PortBindingOptions : InitPure([fn |-> "NewContainer", bindings |-> bindings])

\* NewContainer builds its maps from o.PortBindings.
DoNewPortMaps ==
  /\ fin.fn = "NewContainer"
  /\ ~fout.done
  /\ fout' = [done |-> TRUE, value |-> NewPortMaps(fin.bindings)]
  /\ UNCHANGED <<hvars, pvars, evars, heap, config, fin>>

NextPorts == DoNewPortMaps

SpecPorts == InitPorts /\ [][NextPorts]_vars

\* The handle's operations and exec together: the caller works on a handle
\* that is new or running, either with the handle's methods or with exec.
NextFrame ==
  \/ epc = "idle" /\ Next
  \/ last.op = "none" /\ NextExec

SpecFrame == InitExec /\ [][NextFrame]_vars

\* ------------------------------------------------------ properties of exec

\* C2 (as claimed): when StartExec returns an error, exec neither blocks for
\* ever nor ends the process: the process stays alive, and once nothing more
\* can happen exec has returned that error to its caller.
C2_StartErrorReturnedToCaller ==
  gerr # NoErr
    => /\ ~exited
       /\ ~(ENABLED NextExec) => (eret.returned /\ eret.err = gerr)

\* ---------------------------------------------------- properties of the pool

JustReturned(op) == ppc = "returned" /\ pret.op = op

\* C1 (as claimed): when at least one member's Run failed during RunAll,
\* RunAll returns a non-nil error, in whatever order the results arrive.
C1_RunAllReportsAnyFailure ==
  (JustReturned("RunAll") /\ \E i \in DOMAIN pret.results : pret.results[i] # NoErr)
    => pret.err # NoErr

\* C10: RunAll attempts every member: Run is invoked exactly once for each
\* entry of the pool, whatever the other members' outcomes and completion
\* order; RunAll returns only when every entry's Run has been invoked and
\* has returned.
C10_RunAllRunsEveryMember ==
  /\ \A i \in DOMAIN invoked : invoked[i] <= 1
  /\ JustReturned("RunAll")
       => \A i \in DOMAIN pool : invoked[i] = 1 /\ tpc[i] = "done"

C10_Witness ==
  /\ JustReturned("RunAll")
  /\ Len(pool) = MaxPool
  /\ \E i, j \in DOMAIN pool :
       /\ pret.results[i] # NoErr
       /\ pret.results[j] = NoErr
       /\ invoked[i] = 1 /\ invoked[j] = 1
  /\ pret.err = NoErr

\* ------------------------------------------------- properties of the handle

CallIdx(kind) == {i \in 1..Len(calls) : calls[i].call = kind}

RemoveIdx(force) == {i \in CallIdx("RemoveContainer") : calls[i].force = force}

GracefulFailed == \E i \in RemoveIdx(FALSE) : ~calls[i].ok

ForcedSucceeded == \E i \in RemoveIdx(TRUE) : calls[i].ok

\* C3: Remove on a handle with a non-empty ID returns no error whenever the
\* graceful engine remove (force=false) failed and the forced engine remove
\* (force=true) succeeded.
C3_ForcedSuccessIsSuccess ==
  (last.op = "Remove" /\ ID(last.pre) # EmptyID /\ GracefulFailed /\ ForcedSucceeded)
    => last.err = NoErr

C3_Witness ==
  /\ last.op = "Remove"
  /\ ID(last.pre) # EmptyID
  /\ GracefulFailed
  /\ ForcedSucceeded
  /\ last.pre.Running

\* C4: Remove on a handle whose ID is empty returns an error and makes no
\* engine remove call at all, neither graceful nor forced.
C4_RemoveEmptyIDFailsLocally ==
  (last.op = "Remove" /\ ID(last.pre) = EmptyID)
    => /\ last.err # NoErr
       /\ last.err.cause = "IDEmpty"
       /\ CallIdx("RemoveContainer") = {}
       /\ calls = <<>>

C4_Witness ==
  /\ last.op = "Remove"
  /\ ID(last.pre) = EmptyID
  /\ last.err.kind = "CantRemove"

\* C5 (as claimed): once Remove has returned success the handle's ID reads as
\* empty, so that a handle's ID is empty exactly when its container is not
\* on the engine.
C5_RemoveInvalidatesHandle ==
  /\ (last.op \in {"Remove", "StopAndRemove"} /\ last.err = NoErr)
       => ID(handles[last.h]) = EmptyID
  /\ \A h \in DOMAIN handles :
       (ID(handles[h]) = EmptyID) <=> (ID(handles[h]) \notin engine.containers)

\* C6 (as claimed): Start, Stop, Rename and Refresh on a handle whose ID is
\* empty fail without an engine call: the engine's start, stop, rename and
\* inspect are never called with an empty container id.
C6_NoEngineCallWithEmptyID ==
  /\ \A i \in 1..Len(calls) :
       calls[i].call \in {"StartContainer", "StopContainer", "RenameContainer",
                          "InspectContainer"}
         => calls[i].id # EmptyID
  /\ (last.op \in {"Start", "Stop", "Rename", "Refresh"} /\ ID(last.pre) = EmptyID)
       => last.err # NoErr

StopFailed == \E i \in CallIdx("StopContainer") : ~calls[i].ok

\* C7: in StopAndRemove, when Stop fails no engine remove call is made and
\* the stop error is what StopAndRemove returns; an engine remove call is
\* made only after the engine stop call has succeeded.
C7_StopAndRemoveShortCircuits ==
  last.op = "StopAndRemove"
    => /\ StopFailed => /\ CallIdx("RemoveContainer") = {}
                        /\ last.err = Err("CantStopContainer", "StopContainer")
       /\ \A j \in CallIdx("RemoveContainer") :
            \E i \in CallIdx("StopContainer") : i < j /\ calls[i].ok
       /\ Len(calls) > 0 /\ calls[1].call = "StopContainer"

C7_Witness ==
  /\ last.op = "StopAndRemove"
  /\ StopFailed
  /\ ID(last.pre) # EmptyID
  /\ ID(last.pre) \in engine.containers

\* C8: Run pulls the image zero times when ImageExists reported true, and
\* exactly once, before the create, when ImageExists reported false.
C8_PullOnlyWhenImageMissing ==
  last.op = "Run"
    => /\ Len(calls) > 0 /\ calls[1].call = "InspectImage"
       /\ Cardinality(CallIdx("InspectImage")) = 1
       /\ calls[1].ok => CallIdx("PullImage") = {}
       /\ ~calls[1].ok => /\ CallIdx("PullImage") = {2}
                          /\ \A j \in CallIdx("CreateContainer") : j > 2

C8_Witness ==
  /\ last.op = "Run"
  /\ ~calls[1].ok
  /\ CallIdx("PullImage") = {2}
  /\ CallIdx("CreateContainer") = {3}
  /\ last.err = NoErr

\* C9: Run stops at the first failing step with that step's error: a failed
\* pull leaves create and start uncalled (download error), a failed create
\* leaves start uncalled (create error), a failed start gives the start
\* error; create is called only once the image check or pull is over, and
\* start only after create has succeeded.
C9_RunShortCircuits ==
  last.op = "Run"
    => /\ (\E i \in CallIdx("PullImage") : ~calls[i].ok)
            => /\ CallIdx("CreateContainer") = {}
               /\ CallIdx("StartContainer") = {}
               /\ last.err.kind = "UnableToDownload"
       /\ (\E i \in CallIdx("CreateContainer") : ~calls[i].ok)
            => /\ CallIdx("StartContainer") = {}
               /\ last.err.kind = "CantCreate"
       /\ (\E i \in CallIdx("StartContainer") : ~calls[i].ok)
            => last.err.kind = "CantStart"
       /\ \A j \in CallIdx("CreateContainer") :
            /\ \E i \in CallIdx("InspectImage") : i < j
            /\ \A i \in CallIdx("PullImage") : i < j /\ calls[i].ok
            /\ calls[1].ok \/ \E i \in CallIdx("PullImage") : i < j
       /\ \A j \in CallIdx("StartContainer") :
            \E i \in CallIdx("CreateContainer") : i < j /\ calls[i].ok
       /\ last.err = NoErr
            => \A i \in 1..Len(calls) :
                 calls[i].call \in {"PullImage", "CreateContainer", "StartContainer"}
                   => calls[i].ok

C9_Witness ==
  /\ last.op = "Run"
  /\ \E i \in CallIdx("CreateContainer") : ~calls[i].ok
  /\ \E i \in CallIdx("PullImage") : calls[i].ok
  /\ last.err.kind = "CantCreate"


\* ------------------------------------------------------------------ C11
\* A member task that is about to send finds room in the channel.
SendNeverBlocks == \A i \in DOMAIN pool : tpc[i] = "sending" => Len(sem) < SemCap

\* The pool operation returns after len(pool) receptions, when every member
\* task has finished its operation and sent its result.
ReturnsAfterAll ==
  ppc = "returned" =>
    /\ nrecv = Len(pool)
    /\ \A i \in DOMAIN pool : tpc[i] = "done" /\ invoked[i] = 1
    /\ pool = <<>> => pret.err = NoErr

\* C11: in RunAll and RemoveAll no member task ever blocks on its send (the
\* channel never holds more than len(pool) results), the caller receives
\* exactly len(pool) results and returns only after every member operation
\* has completed; when every member operation terminates the pool operation
\* terminates, and an empty pool returns nil.
C11_PoolNeverBlocksAndTerminates ==
  /\ [](SendNeverBlocks /\ Len(sem) <= Len(pool) /\ nrecv <= Len(pool) /\ ReturnsAfterAll)
  /\ (ppc # "idle") ~> (ppc = "returned")

\* Every member has sent before the caller received anything: the channel is full.
C11_Witness == Len(pool) > 1 /\ Len(sem) = Len(pool) /\ ppc = "wait"


\* ------------------------------------------------------------------ C12
\* C12: during RunAll and RemoveAll no two member tasks that are running at
\* the same time work on the same Container handle, whatever pool was passed.
\* (The two goroutines of a handle listed twice both assign c.Container; the
\* model runs each member operation in one step, so it shows the overlap of
\* the two calls and not the outcomes of the unsynchronised writes.)
C12_NoTwoTasksOnOneHandle ==
  \A i, j \in DOMAIN pool :
    (i # j /\ tpc[i] = "running" /\ tpc[j] = "running") => pool[i] # pool[j]

\* ------------------------------------------------------------------ C13
\* C13: RemoveAll calls Remove(volumes) exactly once on every member and
\* returns a non-nil error whenever at least one member's Remove failed,
\* whatever the order in which the members complete.
\* (Stated for the pools that list every handle once, where no two member
\* operations touch the same handle.)
C13_RemoveAllOnceEachAndReportsFailure ==
  (JustReturned("RemoveAll") /\ \A i, j \in DOMAIN pool : i # j => pool[i] # pool[j]) =>
    /\ \A i \in DOMAIN pool : invoked[i] = 1
    /\ (\E i \in DOMAIN pool : pret.results[i] # NoErr) => pret.err # NoErr


\* ------------------------------------------------------------------ C14
\* The lines of a stream of bytes: the pieces between newlines, each without
\* its trailing carriage return, and what follows the last newline if any.
RECURSIVE LinesOf(_)
LinesOf(data) ==
  IF data = <<>> THEN <<>>
  ELSE LET i == IndexNewline(data)
       IN  IF i = 0 THEN <<dropCR(data)>>
           ELSE <<dropCR(SubSeq(data, 1, i - 1))>> \o LinesOf(SubSeq(data, i + 1, Len(data)))

\* C14: when the exec session's exit code is 0, exec returns exactly the
\* lines written to the combined output stream, in the order written, none
\* lost, duplicated or reordered, and no error.
C14_ExitZeroReturnsAllLines ==
  (eret.returned /\ einspect.ok /\ einspect.code = 0) =>
    /\ eret.logs = LinesOf(written)
    /\ eret.err = NoErr

\* ------------------------------------------------------------------ C15
\* C15: when the exec session's exit code is not 0, exec returns an error
\* that names the command (its words joined by spaces) and the exit code
\* InspectExec reported.
C15_NonZeroExitIsCommandError ==
  (eret.returned /\ einspect.ok /\ einspect.code # 0) =>
    eret.err = [kind |-> "CommandFailed", cause |-> <<Join(ecall.cmd), einspect.code>>]

\* A command of two words ended with exit code 2.
C15_Witness ==
  eret.returned /\ einspect.ok /\ einspect.code = 2 /\ Len(ecall.cmd) = 2

\* ------------------------------------------------------------------ C16
\* C16: exec on a handle whose id is empty fails with an error and makes no
\* engine call: no CreateExec, no StartExec (the goroutine is never
\* started), no InspectExec.
C16_ExecEmptyIDFailsLocally ==
  (epc # "idle" /\ ecall.id = EmptyID) =>
    /\ eret.returned
    /\ eret.err # NoErr
    /\ calls = <<>>
    /\ gpc = "none"

\* exec was called on a handle never created.
C16_Witness == epc = "returned" /\ ecall.id = EmptyID /\ eret.returned


\* ------------------------------------------------------------------ C18
\* C18: when an engine call made for Create, Start, Stop, Rename or Refresh
\* (the Refresh that Start, Stop and Rename end with included) fails, the
\* operation returns an error; the only engine failure kept from the caller
\* is that of the graceful attempt inside Remove.
C18_EngineFailureIsReturned ==
  /\ (last.op \in {"Create", "Start", "Stop", "Rename", "Refresh"}
        /\ \E i \in DOMAIN calls : ~calls[i].ok)
       => last.err # NoErr
  /\ (last.op = "Remove"
        /\ \E i \in DOMAIN calls : calls[i].force /\ ~calls[i].ok)
       => last.err # NoErr

\* ------------------------------------------------------------------ C19
\* The name Rename gives the engine: newName without one leading "/".
Stripped(newName) ==
  IF newName # <<>> /\ newName[1] = "/" THEN Tail(newName) ELSE newName

\* C19: Rename strips one leading "/" and never asks the engine to rename to
\* the empty name: a name that is empty, or empty once stripped, fails with
\* the validation error and no engine call; any other name is passed on
\* stripped, and the handle is refreshed exactly when the engine renamed.
C19_RenameNeverSendsEmptyName ==
  last.op = "Rename" =>
    /\ \A i \in DOMAIN calls :
         calls[i].call = "RenameContainer" => calls[i].name # <<>>
    /\ Stripped(last.newName) = <<>> => (last.err.kind = "NewNameEmpty" /\ calls = <<>>)
    /\ Stripped(last.newName) # <<>> =>
         /\ calls # <<>>
         /\ calls[1].call = "RenameContainer" /\ calls[1].name = Stripped(last.newName)
         /\ Len(calls) = (IF calls[1].ok THEN 2 ELSE 1)
         /\ Len(calls) = 2 => calls[2].call = "InspectContainer"


\* ------------------------------------------------------------------ C17
\* A step that changes the snapshot handle h holds is the step of a Refresh
\* that succeeded or of a successful Create, Start or Stop on h, alone or
\* inside Rename, Run and StopAndRemove.
SnapshotChangeAllowed(h) ==
  /\ last'.h = h
  /\ epc' = epc /\ gpc' = gpc
  /\ \/ last'.op \in {"Refresh", "Create", "Start", "Stop", "Rename"} /\ last'.err = NoErr
     \/ /\ last'.op = "Run"
        /\ \E i \in DOMAIN calls' : calls'[i].call = "CreateContainer" /\ calls'[i].ok
     \/ /\ last'.op = "StopAndRemove"
        /\ \E i \in DOMAIN calls' : calls'[i].call = "StopContainer" /\ calls'[i].ok

\* C17: the snapshot a handle caches changes only in Refresh or in a
\* successful Create, Start or Stop: a failed Create, Start, Stop or Refresh,
\* and every Remove, exec and Logs, leave it exactly as it was.
C17_SnapshotChangesOnlyOnSuccess ==
  [][\A h \in Handles : handles'[h] # handles[h] => SnapshotChangeAllowed(h)]_vars

\* A Create that failed on a handle already created left its snapshot alone.
C17_Witness ==
  /\ last.op = "Create" /\ last.err # NoErr
  /\ last.pre.ID # EmptyID /\ handles[last.h] = last.pre


\* ------------------------------------------------------------------ C20
\* C20: Create fails with a configuration error, before any engine call,
\* whenever the handle's image or name is empty when Create is called (the
\* handle may be a clone, or its configuration may have been changed since
\* NewContainer); every other failure of Create is the engine's error.
C20_CreateChecksImageAndName ==
  last.op = "Create" =>
    /\ (Image(last.pre) = "" \/ last.pre.Name = <<>>) =>
         (last.err.kind \in {"ImageRequired", "NameRequired"} /\ calls = <<>>)
    /\ (Image(last.pre) # "" /\ last.pre.Name # <<>> /\ last.err # NoErr) =>
         last.err = Err("Engine", "CreateContainer")


\* ------------------------------------------------------------------ C21
\* The configuration of handle h: image, name and what its collections hold.
Conf(h) ==
  [Image |-> handles[h].Image, Name |-> handles[h].Name,
   items |-> [f \in Fields |-> heap[config[h][f]].items]]

\* The configuration of handle h after the step.
ConfNext(h) ==
  [Image |-> handles'[h].Image, Name |-> handles'[h].Name,
   items |-> [f \in Fields |-> heap'[config'[h][f]].items]]

Other(h) == IF h = "h1" THEN "h2" ELSE "h1"

\* C21: Clone returns a handle whose ID is empty, even when the original
\* has one, and whose configuration equals the original's; Clone leaves the
\* original as it was; and a later change of the configuration of one of
\* the two (image, port bindings, binds, env, links) leaves the
\* configuration of the other unchanged.
C21_CloneIsDeepCopy ==
  [][/\ last'.op = "Clone" =>
          /\ handles'[last'.h].ID = EmptyID
          /\ ConfNext(last'.h) = Conf(Other(last'.h))
          /\ ConfNext(Other(last'.h)) = Conf(Other(last'.h))
          /\ handles'[Other(last'.h)] = handles[Other(last'.h)]
     /\ last'.op \in {"SetItem", "MapSet", "MapDelete", "SetImage"} =>
          ConfNext(Other(last'.h)) = Conf(Other(last'.h))]_vars

\* An element of a slice of the clone h2 was changed, the original having
\* an ID: the two configurations now differ.
C21_Witness ==
  /\ last.op = "SetItem" /\ last.h = "h2"
  /\ handles["h1"].ID # EmptyID /\ handles["h2"].ID = EmptyID
  /\ Conf("h1").items # Conf("h2").items


\* ------------------------------------------------------------------ C22
\* The key claimed for a binding: ContainerPort/udp for exactly "udp",
\* ContainerPort/tcp otherwise.
ClaimedKey(b) == <<b.ContainerPort, "/", IF b.Protocol = "udp" THEN "udp" ELSE "tcp">>

\* C22 (as claimed): for every port binding given to NewContainer the key of
\* the exposed port and of the host port binding is ContainerPort/protocol,
\* where the protocol is "udp" only when the binding's Protocol is exactly
\* "udp" and "tcp" for every other value, the empty one included; the key
\* maps to a single binding with HostIP 0.0.0.0 and the binding's HostPort.
C22_EveryBindingKeptWithProtocol ==
  (fin.fn = "NewContainer" /\ fout.done) =>
    \A i \in DOMAIN fin.bindings :
      LET b == fin.bindings[i]
          key == <<b.ContainerPort, "/", IF b.Protocol = "udp" THEN "udp" ELSE "tcp">>
      IN  /\ key \in fout.value.exposedPorts
          /\ key \in DOMAIN fout.value.portBindings
          /\ fout.value.portBindings[key]
               = <<[HostIP |-> "0.0.0.0", HostPort |-> b.HostPort]>>

\* C22 (amended): every port binding given to NewContainer has its key
\* ContainerPort/protocol, with the protocol as claimed, among the exposed
\* ports and the host port bindings, and the two maps hold no other key;
\* the key maps to a single binding with HostIP 0.0.0.0 and the HostPort of
\* the last binding given with that key, so the claimed HostPort holds for
\* every binding that no later binding shares its key with.
C22_LastBindingOfKeyKept ==
  (fin.fn = "NewContainer" /\ fout.done) =>
    /\ fout.value.exposedPorts = {ClaimedKey(fin.bindings[i]) : i \in DOMAIN fin.bindings}
    /\ DOMAIN fout.value.portBindings = fout.value.exposedPorts
    /\ \A i \in DOMAIN fin.bindings :
         (\A j \in DOMAIN fin.bindings :
            j > i => ClaimedKey(fin.bindings[j]) # ClaimedKey(fin.bindings[i]))
         => fout.value.portBindings[ClaimedKey(fin.bindings[i])]
              = <<[HostIP |-> "0.0.0.0", HostPort |-> fin.bindings[i].HostPort]>>

\* Two bindings with one key, given with a protocol that is neither "udp"
\* nor "tcp" and with none.
C22_Witness ==
  /\ fin.fn = "NewContainer" /\ fout.done
  /\ \E i, j \in DOMAIN fin.bindings :
       /\ i < j
       /\ fin.bindings[i].Protocol = "UDP" /\ fin.bindings[j].Protocol = ""
       /\ fin.bindings[i].ContainerPort = fin.bindings[j].ContainerPort
       /\ fin.bindings[i].HostPort # fin.bindings[j].HostPort

----------------------------------------------------------------------------
\* SubString (utils): a string is the sequence of its bytes, as len and
\* s[:size] take it.

Chars == {"a", "b"}

Strings == UNION {[1..n -> Chars] : n \in 0..MaxLen}

Sizes == (0 - 1) .. (MaxLen + 1)

\* Mutant of SubString: the test size >= 0 is left out.
SubString_NoLowerBound(s, size) ==
  IF Len(s) > 0 /\ Len(s) >= size THEN SubSeq(s, 1, size) ELSE s

\* func SubString(s string, size int) string
SubString(s, size) ==
  IF size >= 0 /\ Len(s) > 0 /\ Len(s) >= size THEN SubSeq(s, 1, size) ELSE s

InitSub ==
  \E s \in Strings, size \in Sizes : InitPure([fn |-> "SubString", s |-> s, size |-> size])

DoSubString ==
  /\ fin.fn = "SubString"
  /\ ~fout.done
  /\ fout' = [done |-> TRUE, value |-> SubString(fin.s, fin.size)]
  /\ UNCHANGED <<hvars, pvars, evars, heap, config, fin>>

NextSub == DoSubString

SpecSub == InitSub /\ [][NextSub]_vars

IsPrefix(r, s) == Len(r) <= Len(s) /\ \A i \in 1..Len(r) : r[i] = s[i]

\* C23: SubString(s, size) is the first size characters of s when
\* 0 <= size <= len(s), and s itself when size is negative or greater than
\* len(s); the result is always a prefix of s and never longer than s.
C23_SubStringIsBoundedPrefix ==
  (fin.fn = "SubString" /\ fout.done) =>
    /\ (0 <= fin.size /\ fin.size <= Len(fin.s))
         => fout.value = [i \in 1..fin.size |-> fin.s[i]]
    /\ (fin.size < 0 \/ fin.size > Len(fin.s)) => fout.value = fin.s
    /\ IsPrefix(fout.value, fin.s)

\* A call that cuts: a size within the string gives a proper prefix.
C23_Witness ==
  /\ fin.fn = "SubString" /\ fout.done
  /\ 0 < fin.size /\ fin.size < Len(fin.s)
  /\ Len(fout.value) = fin.size

----------------------------------------------------------------------------
\* C24: Remove on a handle with a non-empty ID makes at most two engine
\* remove calls, each with the handle's ID and the removeVolumes flag given:
\* the first with force=false, the second, with force=true, only after the
\* first has failed and never after it succeeded; Remove returns an error
\* exactly when both calls failed.
C24_RemoveEscalatesOnce ==
  (last.op = "Remove" /\ ID(last.pre) # EmptyID) =>
    /\ Len(calls) \in {1, 2}
    /\ \A i \in DOMAIN calls :
         /\ calls[i].call = "RemoveContainer"
         /\ calls[i].id = ID(last.pre)
         /\ calls[i].volumes = last.volumes
         /\ calls[i].force = (i = 2)
    /\ (Len(calls) = 2) <=> ~calls[1].ok
    /\ (last.err # NoErr) <=> (\A i \in 1..2 : i \in DOMAIN calls /\ ~calls[i].ok)

\* Both removals of a container with its volumes have failed.
C24_Witness ==
  /\ last.op = "Remove"
  /\ ID(last.pre) # EmptyID
  /\ last.volumes
  /\ RemoveIdx(TRUE) # {}
  /\ ~ForcedSucceeded
  /\ last.err # NoErr

----------------------------------------------------------------------------
\* The steps of exec, read off the state.

\* Every StartExec call comes after a CreateExec call that succeeded.
CreatePrecedesStart ==
  \A i \in CallIdx("StartExec") : \E j \in CallIdx("CreateExec") : j < i /\ calls[j].ok

\* How many bytes the caller has taken out of the pipe.
BytesRead == Len(written) - Len(pipe.data)

\* The caller has taken nothing from the stream unless it is past <-success
\* and the goroutine's StartExec has sent the signal.
NoReadBeforeStarted ==
  (BytesRead > 0 \/ sbuf # <<>> \/ logs # <<>>)
    => epc \notin {"idle", "wait"} /\ gpc \notin {"none", "start", "signal"}

\* The read end of the pipe is closed only once StartExec has returned.
ClosedAfterStartReturned ==
  pipe.rclosed => gpc = "done" /\ \E i \in CallIdx("StartExec") : calls[i].ok

\* InspectExec is called only once the read end of the pipe is closed.
InspectAfterClosed ==
  CallIdx("InspectExec") # {} => pipe.rclosed

\* C25: in exec the steps come in one order in every interleaving of the
\* caller and the goroutine: CreateExec before StartExec; the caller reads
\* nothing from the output stream before the started signal has fired; the
\* exit code is inspected only after the output stream has been closed, and
\* the stream is closed only after StartExec has returned.
C25_ExecStepsInOrder ==
  /\ CreatePrecedesStart
  /\ NoReadBeforeStarted
  /\ InspectAfterClosed
  /\ ClosedAfterStartReturned

====
